---- MODULE Spec2Model ----
(***************************************************************************)
(* Indexing and search-coordination engine of the acemcp tool              *)
(* (src/rust/mcp/tools/acemcp/mcp.rs).                                     *)
(*                                                                         *)
(* The persisted state is two whole-document JSON files, the status file   *)
(* (projects_status.json) and the registry file (projects.json).  Runs of  *)
(* update_index and calls of search_context execute in parallel (spawned   *)
(* tokio tasks, the watcher, the GUI commands), and the files carry no     *)
(* lock, so every read of a file and every write of a file is one step of  *)
(* the model; what a task computes between two file accesses is part of    *)
(* the step that follows.                                                  *)
(*                                                                         *)
(* Abstractions: a blob is represented by its identifier (sha256_hex of    *)
(* path and content); the registry list is kept as the set of its          *)
(* elements (every reader turns it into a set or tests it for emptiness);  *)
(* timestamps are "None" or "Some".                                        *)
(***************************************************************************)
EXTENDS Naturals, Sequences, FiniteSets, TLC

\* ---------------------------------------------------------------- bounds
MaxCalls == 2         \* calls of the tools (index triggers, searches) over the whole behaviour
MaxHostLen == 2       \* characters after the scheme of base_url
MaxStrLen == 2        \* bytes of a path and of a content that are hashed
MaxContentLen == 5    \* bytes of a content that is split
MaxLinesPerBlob == 2  \* max_lines_per_blob
MaxTotalFiles == 2    \* total_files of a stored record

\* ------------------------------------------------------- program constants
DefaultBatchSize == 10   \* config.batch_size.unwrap_or(10)
UploadMaxRetries == 3    \* retry_request(.., 3, 1.0) for a batch
UploadBaseDelay == 1
SearchMaxRetries == 3    \* retry_request(.., 3, 2.0) for the retrieval
SearchBaseDelay == 2
SmartWaitMin == 1        \* smart_wait_range: Some((1, 5))
SmartWaitMax == 5
HttpsSchemeLen == 8      \* "https://".len()
HttpSchemeLen == 7       \* "http://".len()

\* ------------------------------------------------------------- universes
Projects == {"p"}
Ids == {"A", "B", "C"}
Runs == {1, 2}           \* the runs that can be in flight at once
Searches == {1}          \* the searches that can be in flight at once
BatchSizes == {1, 2}

VARIABLES
    fs,            \* per project: does the root exist, and the identifiers of its blobs
    statusFile,    \* projects_status.json: canonical root -> ProjectIndexStatus
    registryFile,  \* projects.json: canonical root -> blob names
    runs,          \* the update_index runs: position and locals of each
    memoryNotes,   \* per project: how often write_index_memory_to_ji was called
    searches,      \* the search_context calls: position and locals of each
    calls,         \* number of tool calls so far
    jiyi,          \* the jiyi call of the memory tool: position and locals
    call           \* the call of a pure function under study: arguments and result

vars == <<fs, statusFile, registryFile, runs, memoryNotes, searches, calls, jiyi, call>>

\* ------------------------------------------------------------- helpers
Min(a, b) == IF a <= b THEN a ELSE b

RECURSIVE Perms(_)
Perms(S) ==
    IF S = {} THEN {<<>>}
    ELSE UNION {{<<x>> \o t : t \in Perms(S \ {x})} : x \in S}

Range(s) == {s[k] : k \in 1..Len(s)}

\* ------------------------------------------------------ configuration
NoUrl == [present |-> FALSE, scheme |-> "", host |-> 0]

Urls ==
    {NoUrl} \cup [present : {TRUE}, scheme : {"", "http://", "https://"}, host : 0..MaxHostLen]

Configs == [base_url : Urls, token : BOOLEAN, batch_size : BatchSizes]

\* the configurations with one blob to a batch
ConfigsOne == {cfg \in Configs : cfg.batch_size = 1}

SchemeLen(scheme) ==
    IF scheme = "https://" THEN HttpsSchemeLen
    ELSE IF scheme = "http://" THEN HttpSchemeLen
    ELSE 0

UrlLen(u) == SchemeLen(u.scheme) + u.host

\* normalize_base_url: a missing scheme becomes http://
normalize_base_url(u) ==
    IF u.scheme = "" THEN [u EXCEPT !.scheme = "http://"] ELSE u

NormalizeConfig(cfg) ==
    IF cfg.base_url.present
    THEN [cfg EXCEPT !.base_url = normalize_base_url(cfg.base_url)]
    ELSE cfg

\* a validation that does not look at the token
ConfigError_NoToken(cfg) ==
    IF ~cfg.base_url.present THEN "no_base_url"
    ELSE IF ~(cfg.base_url.scheme \in {"http://", "https://"})
            \/ ~(UrlLen(cfg.base_url) > HttpsSchemeLen)
         THEN "invalid_base_url"
    ELSE "ok"

\* update_index, lines 636-641: the result of the validation
ConfigError(cfg) ==
    IF ~cfg.base_url.present THEN "no_base_url"
    ELSE IF ~(cfg.base_url.scheme \in {"http://", "https://"})
            \/ ~(UrlLen(cfg.base_url) > HttpsSchemeLen)
         THEN "invalid_base_url"
    ELSE IF ~cfg.token THEN "no_token"
    ELSE "ok"

\* ------------------------------------------------------ status records
DefaultStatus ==
    [status |-> "Idle", progress |-> 0, total_files |-> 0, indexed_files |-> 0,
     pending_files |-> 0, last_error |-> "None", last_success_time |-> "None",
     last_failure_time |-> "None"]

\* all_status.projects.get(root) or the default record
get_project_status(doc, p) ==
    IF p \in DOMAIN doc THEN doc[p] ELSE DefaultStatus

\* the document with the record of p replaced (inserted when absent)
PutEntry(doc, p, rec) ==
    [x \in (DOMAIN doc) \cup {p} |-> IF x = p THEN rec ELSE doc[x]]

UpdaterIndexing(s) == [s EXCEPT !.status = "Indexing", !.progress = 0]

\* a failure record without the time of the failure
UpdaterNoFiles_NoTime(s) ==
    [s EXCEPT !.status = "Failed", !.last_error = "no_indexable_files"]

UpdaterNoFiles(s) ==
    [s EXCEPT !.status = "Failed", !.last_error = "no_indexable_files",
              !.last_failure_time = "Some"]

UpdaterCollected(s, n) == [s EXCEPT !.total_files = n, !.progress = 20]

UpdaterNoBlobs(s) ==
    [s EXCEPT !.status = "Failed", !.last_error = "no_blobs_after_index",
              !.last_failure_time = "Some"]

\* a success record that keeps the last error
UpdaterSynced_KeepError(s, n) ==
    [s EXCEPT !.status = "Synced", !.progress = 100, !.indexed_files = n,
              !.pending_files = 0, !.last_success_time = "Some"]

UpdaterSynced(s, n) ==
    [s EXCEPT !.status = "Synced", !.progress = 100, !.indexed_files = n,
              !.pending_files = 0, !.last_success_time = "Some",
              !.last_error = "None"]

\* ------------------------------------------------------------- runs
NoResult == [kind |-> "none", names |-> {}]

IdleRun ==
    [pc |-> "unused", project |-> "p", batch_size |-> 1, snap |-> <<>>,
     blobs |-> {}, projects |-> <<>>, existing_hashes |-> {}, new_blobs |-> <<>>,
     i |-> 0, attempt |-> 0, uploaded_names |-> {}, failed_batches |-> <<>>,
     blob_names |-> {}, is_first_success |-> FALSE, result |-> NoResult]

\* a finished run keeps its project and its result; its locals are dropped
Finished(run, kind, names) ==
    [IdleRun EXCEPT !.pc = "done", !.project = run.project,
                    !.result = [kind |-> kind, names |-> names]]

InFlight(r) == runs[r].pc \notin {"unused", "done"}

\* update_index up to its first file access: the validation of the configuration
StartedRun(p, cfg) ==
    IF ConfigError(cfg) = "ok"
    THEN [IdleRun EXCEPT !.pc = "indexing_load", !.project = p,
                         !.batch_size = cfg.batch_size]
    ELSE Finished([IdleRun EXCEPT !.project = p], ConfigError(cfg), {})

\* the lowest run that is not in flight
FreeRun == CHOOSE r \in Runs : ~InFlight(r) /\ \A q \in Runs : q < r => InFlight(q)

HasFreeRun == \E r \in Runs : ~InFlight(r)

\* ------------------------------------------------------ retry_request
RetryableWords == {"timeout", "connection", "network", "temporary"}

\* an error message is the set of the vocabulary's words its text contains
ErrorMessages ==
    {{"timeout"}, {"connection"}, {"network"}, {"temporary"},
     {"HTTP 500"}, {"HTTP 503", "temporary"}, {"decode"}}

IsRetryable(msg) == msg \cap RetryableWords # {}

\* a policy that retries every error while attempts are left
GivesUp_AnyError(attempt, max_retries, msg) == attempt >= max_retries

\* after a failed attempt, attempt already incremented: give up or retry
GivesUp(attempt, max_retries, msg) == attempt >= max_retries \/ ~IsRetryable(msg)

\* a delay that does not grow
BackoffDelay_Constant(base, attempt) == base

\* delay = base_delay_secs * 2^(attempt - 1), attempt >= 1
BackoffDelay(base, attempt) == base * 2 ^ (attempt - 1)

\* ------------------------------------------------------ the backend
\* blob_names of a batch-upload response: the identifiers of the batch, or an
\* opaque name of the backend's choosing
OpaqueNames == {"A"}

BackendNames(batch) == {batch} \cup {{x} : x \in OpaqueNames}

UploadResponses(batch) ==
    {[kind |-> "names", names |-> N, msg |-> {}] : N \in BackendNames(batch)}
    \cup {[kind |-> "empty", names |-> {}, msg |-> {}],
          [kind |-> "missing", names |-> {}, msg |-> {}]}
    \cup {[kind |-> "error", names |-> {}, msg |-> m] : m \in ErrorMessages}

\* ------------------------------------------------------------- searches
NoHint == [kind |-> "none", secs |-> 0]

IdleSearch ==
    [pc |-> "unused", project |-> "p", cfg |-> [base_url |-> NoUrl, token |-> FALSE, batch_size |-> 1],
     initial_state |-> "Idle", hint |-> NoHint, spawned |-> 0,
     blob_names |-> {}, attempt |-> 0,
     result |-> [is_error |-> FALSE, text |-> "none", hint |-> NoHint]]

\* the jiyi call: no call yet
IdleJiyi ==
    [pc |-> "unused", project |-> "p",
     cfg |-> [base_url |-> NoUrl, token |-> FALSE, batch_size |-> 1],
     spawned |-> 0, index_hint |-> FALSE,
     result |-> [is_error |-> FALSE, index_hint |-> FALSE]]

\* a finished search keeps its result only
FinishedSearch(srch, is_error, text, hint) ==
    [IdleSearch EXCEPT !.pc = "done",
                       !.result = [is_error |-> is_error, text |-> text, hint |-> hint]]

\* a derivation that does not look at total_files
get_initial_index_state_ByStatus(status) == status.status

\* a derivation that takes a finished index for one in progress
get_initial_index_state_Busy(status) ==
    IF status.status = "Idle" /\ status.total_files = 0 THEN "Idle"
    ELSE IF status.status = "Idle" THEN "Missing"
    ELSE IF status.status = "Synced" THEN "Indexing"
    ELSE status.status

\* get_initial_index_state on the record read from the status file
get_initial_index_state(status) ==
    IF status.status = "Idle" /\ status.total_files = 0 THEN "Idle"
    ELSE IF status.status = "Idle" THEN "Missing"
    ELSE status.status

\* a background run for every state
NeedsIndex_Always(state) == TRUE

NeedsIndex(state) == state \in {"Missing", "Idle", "Failed"}

\* ------------------------------------------------------ initial states
\* the project directory: absent, without indexable file, or with blobs
NoRoot == [root |-> FALSE, ids |-> {}]

Dir(S) == [root |-> TRUE, ids |-> S]

\* The two files outlive the process.  They are absent (nothing was indexed
\* yet), or hold what an earlier run over the blobs A, B left when it
\* concluded Synced.
SyncedAB == UpdaterSynced(UpdaterCollected(UpdaterIndexing(DefaultStatus), 2), 2)

NoFiles == [status |-> <<>>, registry |-> <<>>]

PriorFiles(p) ==
    [status |-> PutEntry(<<>>, p, SyncedAB), registry |-> PutEntry(<<>>, p, {"A", "B"})]

\* A start: the directory of the project and the two files.  The directory
\* is absent, holds no indexable file, or holds blobs; after an earlier run
\* its blobs are the same (A, B), or A was removed and C added.
Starts ==
    {[dir |-> d, files |-> NoFiles] : d \in {NoRoot, Dir({}), Dir({"A", "B"})}}
    \cup {[dir |-> d, files |-> PriorFiles("p")] :
             d \in {NoRoot, Dir({}), Dir({"A", "B"}), Dir({"B", "C"})}}

\* a directory whose three blobs make three batches of one
StartsSeq == Starts \cup {[dir |-> Dir({"A", "B", "C"}), files |-> NoFiles]}

\* no pure function is under study
NoCall == [fn |-> "none"]

InitWith(starts) ==
    /\ \E st \in starts :
          /\ fs = [p \in Projects |-> st.dir]
          /\ statusFile = st.files.status
          /\ registryFile = st.files.registry
    /\ runs = [r \in Runs |-> IdleRun]
    /\ memoryNotes = [p \in Projects |-> 0]
    /\ searches = [s \in Searches |-> IdleSearch]
    /\ calls = 0
    /\ jiyi = IdleJiyi
    /\ call = NoCall

Init == InitWith(Starts)

InitSeq == InitWith(StartsSeq)

\* ------------------------------------------------- update_index, by step
Run(r) == runs[r]

SetRun(r, rec) == runs' = [runs EXCEPT ![r] = rec]

\* update_project_status, first half: load_projects_status
StatusLoad(r, from, to) ==
    /\ Run(r).pc = from
    /\ SetRun(r, [Run(r) EXCEPT !.pc = to, !.snap = statusFile])
    /\ UNCHANGED <<call, jiyi, fs, statusFile, registryFile, memoryNotes, searches, calls>>

\* update_project_status, second half: entry(..).or_insert_with, updater, save
StatusSave(r, from, rec, next) ==
    /\ Run(r).pc = from
    /\ statusFile' = PutEntry(Run(r).snap, Run(r).project, rec)
    /\ SetRun(r, next)
    /\ UNCHANGED <<call, jiyi, fs, registryFile, memoryNotes, searches, calls>>

SnapStatus(r) == get_project_status(Run(r).snap, Run(r).project)

\* trigger_index_update, index_and_search_legacy, the watcher: a run starts
Trigger(p, cfg) ==
    /\ calls < MaxCalls
    /\ HasFreeRun
    /\ SetRun(FreeRun, StartedRun(p, cfg))
    /\ calls' = calls + 1
    /\ UNCHANGED <<call, jiyi, fs, statusFile, registryFile, memoryNotes, searches>>

IndexingLoad(r) == StatusLoad(r, "indexing_load", "indexing_save")

IndexingSave(r) ==
    StatusSave(r, "indexing_save", UpdaterIndexing(SnapStatus(r)),
               [Run(r) EXCEPT !.pc = "collect", !.snap = <<>>])

\* collect_blobs and the test of its result
Collect(r) ==
    /\ Run(r).pc = "collect"
    /\ LET f == fs[Run(r).project] IN
       IF ~f.root THEN SetRun(r, Finished(Run(r), "root_missing", {}))
       ELSE IF f.ids = {} THEN SetRun(r, [Run(r) EXCEPT !.pc = "nofiles_load"])
       ELSE SetRun(r, [Run(r) EXCEPT !.pc = "collected_load", !.blobs = f.ids])
    /\ UNCHANGED <<call, jiyi, fs, statusFile, registryFile, memoryNotes, searches, calls>>

NoFilesLoad(r) == StatusLoad(r, "nofiles_load", "nofiles_save")

NoFilesSave(r) ==
    StatusSave(r, "nofiles_save", UpdaterNoFiles(SnapStatus(r)),
               Finished(Run(r), "no_indexable_files", {}))

CollectedLoad(r) == StatusLoad(r, "collected_load", "collected_save")

CollectedSave(r) ==
    StatusSave(r, "collected_save",
               UpdaterCollected(SnapStatus(r), Cardinality(Run(r).blobs)),
               [Run(r) EXCEPT !.pc = "registry_load", !.snap = <<>>])

\* the registry entry of p in a registry document
RegistryEntry(doc, p) == IF p \in DOMAIN doc THEN doc[p] ELSE {}

\* a merge that keeps every name of the prior entry
ExistingHashes_KeepAll(blobs, existing_blob_names) == existing_blob_names

ExistingHashes(blobs, existing_blob_names) == blobs \cap existing_blob_names

\* new hashes that take every collected blob for new
NewHashes_All(blobs, existing_blob_names) == blobs

NewHashes(blobs, existing_blob_names) == blobs \ existing_blob_names

\* projects.json is loaded; existing and new hashes; the new blobs in the
\* iteration order of a HashSet, which is any order
RegistryLoad(r) ==
    /\ Run(r).pc = "registry_load"
    /\ LET existing_blob_names == RegistryEntry(registryFile, Run(r).project)
           new_hashes == NewHashes(Run(r).blobs, existing_blob_names)
       IN \E order \in Perms(new_hashes) :
            SetRun(r, [Run(r) EXCEPT
                !.pc = IF new_hashes = {} THEN "merge" ELSE "upload",
                !.projects = registryFile,
                !.existing_hashes = ExistingHashes(Run(r).blobs, existing_blob_names),
                !.new_blobs = order,
                !.i = 0, !.attempt = 0])
    /\ UNCHANGED <<call, jiyi, fs, statusFile, registryFile, memoryNotes, searches, calls>>

\* a batch count that drops the last, smaller batch
TotalBatches_Quotient(n, batch_size) == n \div batch_size

TotalBatches(n, batch_size) == (n + batch_size - 1) \div batch_size

\* new_blobs[start..end] of batch i (0-based), as a set
Batch(new_blobs, i, batch_size) ==
    {new_blobs[k] : k \in (i * batch_size + 1)..Min(i * batch_size + batch_size, Len(new_blobs))}

\* the run after batch i is over, successfully (names) or not (failed)
AfterBatch(run, names, failed) ==
    [run EXCEPT
        !.uploaded_names = run.uploaded_names \cup names,
        !.failed_batches = IF failed THEN Append(run.failed_batches, run.i + 1)
                           ELSE run.failed_batches,
        !.i = run.i + 1,
        !.attempt = 0,
        !.pc = IF run.i + 1 < TotalBatches(Len(run.new_blobs), run.batch_size)
               THEN "upload" ELSE "merge"]

\* a failed batch that ends the upload loop
UploadStep_Abort(run, resp) ==
    IF resp.kind = "names" THEN AfterBatch(run, resp.names, FALSE)
    ELSE IF resp.kind \in {"empty", "missing"}
            \/ GivesUp(run.attempt + 1, UploadMaxRetries, resp.msg)
         THEN [AfterBatch(run, {}, TRUE) EXCEPT !.pc = "merge"]
    ELSE [run EXCEPT !.attempt = run.attempt + 1]

\* what one attempt of the upload of batch i makes of its response
UploadStep(run, resp) ==
    IF resp.kind = "names" THEN AfterBatch(run, resp.names, FALSE)
    ELSE IF resp.kind \in {"empty", "missing"} THEN AfterBatch(run, {}, TRUE)
    ELSE IF GivesUp(run.attempt + 1, UploadMaxRetries, resp.msg)
         THEN AfterBatch(run, {}, TRUE)
    ELSE [run EXCEPT !.attempt = run.attempt + 1]

\* one attempt of retry_request for batch i: the POST and its response
UploadAttempt(r) ==
    /\ Run(r).pc = "upload"
    /\ \E resp \in UploadResponses(Batch(Run(r).new_blobs, Run(r).i, Run(r).batch_size)) :
          SetRun(r, UploadStep(Run(r), resp))
    /\ UNCHANGED <<call, jiyi, fs, statusFile, registryFile, memoryNotes, searches, calls>>

\* The attempts of a batch touch no file, so between overlapping runs only
\* the attempt that ends the batch matters: the backend answers with the
\* names of the blobs sent, with a response without names, or with an error
\* that is not retried.
FinalResponses(batch) ==
    {resp \in UploadResponses(batch) :
        /\ resp.kind = "names" => resp.names = batch
        /\ resp.kind = "error" => ~IsRetryable(resp.msg)}

UploadBatch(r) ==
    /\ Run(r).pc = "upload"
    /\ \E resp \in FinalResponses(Batch(Run(r).new_blobs, Run(r).i, Run(r).batch_size)) :
          SetRun(r, UploadStep(Run(r), resp))
    /\ UNCHANGED <<call, jiyi, fs, statusFile, registryFile, memoryNotes, searches, calls>>

\* a merged list of the uploaded names only
AllBlobNames_Uploaded(existing_hashes, uploaded_names) == uploaded_names

AllBlobNames(existing_hashes, uploaded_names) == existing_hashes \cup uploaded_names

\* a merge into the entry the file holds at the time of the write
Merge_Union(r) ==
    /\ runs[r].pc = "merge"
    /\ LET all == AllBlobNames(runs[r].existing_hashes, runs[r].uploaded_names)
                    \cup RegistryEntry(registryFile, runs[r].project)
       IN
        /\ registryFile' = PutEntry(registryFile, runs[r].project, all)
        /\ runs' = [runs EXCEPT ![r] = [runs[r] EXCEPT
                !.pc = IF all = {} THEN "noblobs_load" ELSE "first_check",
                !.blob_names = all, !.new_blobs = <<>>, !.i = 0]]
    /\ UNCHANGED <<call, jiyi, fs, statusFile, memoryNotes, searches, calls>>

\* the merged names are inserted into the loaded document, which is written
Merge(r) ==
    /\ Run(r).pc = "merge"
    /\ LET all == AllBlobNames(Run(r).existing_hashes, Run(r).uploaded_names) IN
        /\ registryFile' = PutEntry(Run(r).projects, Run(r).project, all)
        /\ SetRun(r, [Run(r) EXCEPT
                !.pc = IF all = {} THEN "noblobs_load" ELSE "first_check",
                !.blob_names = all, !.new_blobs = <<>>, !.i = 0])
    /\ UNCHANGED <<call, jiyi, fs, statusFile, memoryNotes, searches, calls>>

NoBlobsLoad(r) == StatusLoad(r, "noblobs_load", "noblobs_save")

NoBlobsSave(r) ==
    StatusSave(r, "noblobs_save", UpdaterNoBlobs(SnapStatus(r)),
               Finished(Run(r), "no_blobs_after_index", {}))

IsFirstSuccess(s) == s.last_success_time = "None"

\* is_first_success: get_project_status reads the status file
FirstCheck(r) ==
    /\ Run(r).pc = "first_check"
    /\ SetRun(r, [Run(r) EXCEPT
            !.pc = "synced_load",
            !.is_first_success =
                IsFirstSuccess(get_project_status(statusFile, Run(r).project))])
    /\ UNCHANGED <<call, jiyi, fs, statusFile, registryFile, memoryNotes, searches, calls>>

SyncedLoad(r) == StatusLoad(r, "synced_load", "synced_save")

SyncedSave(r) ==
    StatusSave(r, "synced_save",
               UpdaterSynced(SnapStatus(r), Cardinality(Run(r).blobs)),
               IF Run(r).is_first_success
               THEN [Run(r) EXCEPT !.pc = "memory", !.snap = <<>>]
               ELSE Finished(Run(r), "ok", Run(r).blob_names))

\* the result of the run after write_index_memory_to_ji returned
AfterMemory(run, written) == Finished(run, "ok", run.blob_names)

\* write_index_memory_to_ji: the note is written or the write fails
WriteMemory(r) ==
    /\ Run(r).pc = "memory"
    /\ memoryNotes' = [memoryNotes EXCEPT ![Run(r).project] = @ + 1]
    /\ \E written \in BOOLEAN : SetRun(r, AfterMemory(Run(r), written))
    /\ UNCHANGED <<call, jiyi, fs, statusFile, registryFile, searches, calls>>

\* ------------------------------------------------ search_context, by step
Srch(s) == searches[s]

SetSearch(s, rec) == searches' = [searches EXCEPT ![s] = rec]

\* the configurations searches are made with: complete, without token,
\* without base_url, and with a one-character host after http://
SearchConfigs ==
    {[base_url |-> [present |-> TRUE, scheme |-> "https://", host |-> 2], token |-> TRUE, batch_size |-> 1],
     [base_url |-> [present |-> TRUE, scheme |-> "https://", host |-> 2], token |-> FALSE, batch_size |-> 1],
     [base_url |-> NoUrl, token |-> TRUE, batch_size |-> 1],
     [base_url |-> [present |-> TRUE, scheme |-> "", host |-> 1], token |-> TRUE, batch_size |-> 1]}

\* a search whose status read inserts the default record, as
\* update_project_status does
SearchBegin_Inserting(s, p, cfg) ==
    /\ calls < MaxCalls
    /\ searches[s].pc \in {"unused", "done"}
    /\ LET state == get_initial_index_state(get_project_status(statusFile, p)) IN
       searches' = [searches EXCEPT ![s] = [IdleSearch EXCEPT
            !.pc = IF NeedsIndex(state) THEN "ensure"
                   ELSE IF state = "Indexing" THEN "wait" ELSE "search",
            !.project = p, !.cfg = NormalizeConfig(cfg), !.initial_state = state]]
    /\ statusFile' = PutEntry(statusFile, p, get_project_status(statusFile, p))
    /\ calls' = calls + 1
    /\ UNCHANGED <<call, jiyi, fs, registryFile, runs, memoryNotes>>

\* search_context up to the match on the state: the configuration is read
\* and normalized, get_initial_index_state reads the status file
SearchBegin(s, p, cfg) ==
    /\ calls < MaxCalls
    /\ Srch(s).pc \in {"unused", "done"}
    /\ LET state == get_initial_index_state(get_project_status(statusFile, p)) IN
       SetSearch(s, [IdleSearch EXCEPT
            !.pc = IF NeedsIndex(state) THEN "ensure"
                   ELSE IF state = "Indexing" THEN "wait" ELSE "search",
            !.project = p, !.cfg = NormalizeConfig(cfg), !.initial_state = state])
    /\ calls' = calls + 1
    /\ UNCHANGED <<call, jiyi, fs, statusFile, registryFile, runs, memoryNotes>>

BackgroundHint == [kind |-> "background", secs |-> 0]

\* ensure_initial_index_background: the state is read again; a run is spawned
\* if it is Missing, Idle or Failed; Ok(()) either way, so the hint is set
SearchEnsure(s) ==
    /\ Srch(s).pc = "ensure"
    /\ LET state == get_initial_index_state(get_project_status(statusFile, Srch(s).project)) IN
       IF NeedsIndex(state)
       THEN /\ HasFreeRun
            /\ SetRun(FreeRun, StartedRun(Srch(s).project, Srch(s).cfg))
            /\ SetSearch(s, [Srch(s) EXCEPT !.pc = "search", !.hint = BackgroundHint,
                                            !.spawned = FreeRun])
       ELSE /\ SetSearch(s, [Srch(s) EXCEPT !.pc = "search", !.hint = BackgroundHint])
            /\ UNCHANGED runs
    /\ UNCHANGED <<call, jiyi, fs, statusFile, registryFile, memoryNotes, calls>>

\* gen_range(min_wait..=max_wait) with a margin of one second
SmartWaitSecs_Margin(min_wait, max_wait) == min_wait..(max_wait + 1)

\* gen_range(min_wait..=max_wait): the seconds the wait can last
SmartWaitSecs(min_wait, max_wait) == min_wait..max_wait

\* smart wait: gen_range(min_wait..=max_wait), sleep, the hint with the seconds
SearchWait(s) ==
    /\ Srch(s).pc = "wait"
    /\ \E wait_secs \in SmartWaitSecs(SmartWaitMin, SmartWaitMax) :
         SetSearch(s, [Srch(s) EXCEPT !.pc = "search",
                                     !.hint = [kind |-> "waited", secs |-> wait_secs]])
    /\ UNCHANGED <<call, jiyi, fs, statusFile, registryFile, runs, memoryNotes, calls>>

\* a search_only that sends the request for an empty registry entry too
SearchOnlyError_NoEmptyCheck(cfg, blob_names) ==
    IF ~cfg.base_url.present THEN "no_base_url"
    ELSE IF ~cfg.token THEN "no_token"
    ELSE "ok"

\* search_only, lines 921-943: the error it returns before any request
SearchOnlyError(cfg, blob_names) ==
    IF ~cfg.base_url.present THEN "no_base_url"
    ELSE IF ~cfg.token THEN "no_token"
    ELSE IF blob_names = {} THEN "not_indexed"
    ELSE "ok"

\* search_only up to the request: base_url, token, the registry file; an
\* error of search_only is returned by search_context without the hint
SearchOnly(s) ==
    /\ Srch(s).pc = "search"
    /\ LET blob_names == RegistryEntry(registryFile, Srch(s).project)
           error == SearchOnlyError(Srch(s).cfg, blob_names)
       IN
       IF error # "ok"
       THEN SetSearch(s, FinishedSearch(Srch(s), TRUE, error, NoHint))
       ELSE SetSearch(s, [Srch(s) EXCEPT !.pc = "retrieve", !.blob_names = blob_names,
                                        !.attempt = 0])
    /\ UNCHANGED <<call, jiyi, fs, statusFile, registryFile, runs, memoryNotes, calls>>

RetrievalResponses ==
    {[kind |-> "text", msg |-> {}], [kind |-> "empty", msg |-> {}]}
    \cup {[kind |-> "error", msg |-> m] : m \in ErrorMessages}

\* what one attempt of the retrieval makes of its response, and the text
\* search_context returns: the result with the hint appended
RetrievalStep(srch, resp) ==
    IF resp.kind = "text" THEN FinishedSearch(srch, FALSE, "retrieved", srch.hint)
    ELSE IF resp.kind = "empty" THEN FinishedSearch(srch, FALSE, "no_relevant_context", srch.hint)
    ELSE IF GivesUp(srch.attempt + 1, SearchMaxRetries, resp.msg)
         THEN FinishedSearch(srch, TRUE, "request_failed", NoHint)
    ELSE [srch EXCEPT !.attempt = srch.attempt + 1]

\* one attempt of retry_request for the retrieval call
SearchAttempt(s) ==
    /\ Srch(s).pc = "retrieve"
    /\ \E resp \in RetrievalResponses : SetSearch(s, RetrievalStep(Srch(s), resp))
    /\ UNCHANGED <<call, jiyi, fs, statusFile, registryFile, runs, memoryNotes, calls>>

\* the attempt that ends the retrieval (see FinalResponses)
SearchRetrieve(s) ==
    /\ Srch(s).pc = "retrieve"
    /\ \E resp \in {x \in RetrievalResponses : x.kind = "error" => ~IsRetryable(x.msg)} :
         SetSearch(s, RetrievalStep(Srch(s), resp))
    /\ UNCHANGED <<call, jiyi, fs, statusFile, registryFile, runs, memoryNotes, calls>>

\* ------------------------------------------------------- jiyi, by step
\* jiyi up to the state read of try_trigger_background_index: with the sou
\* tool disabled nothing is triggered and no hint is set; Synced and
\* Indexing give Ok(()) at once, so the hint is set
JiyiBegin(p, sou_enabled, cfg) ==
    /\ calls < MaxCalls
    /\ jiyi.pc \in {"unused", "done"}
    /\ LET state == get_initial_index_state(get_project_status(statusFile, p)) IN
       jiyi' = [IdleJiyi EXCEPT
            !.pc = IF ~sou_enabled THEN "memory"
                   ELSE IF NeedsIndex(state) THEN "ensure" ELSE "memory",
            !.project = p, !.cfg = cfg,
            !.index_hint = sou_enabled /\ ~NeedsIndex(state)]
    /\ calls' = calls + 1
    /\ UNCHANGED <<call, fs, statusFile, registryFile, runs, memoryNotes, searches>>

\* ensure_initial_index_background called by try_trigger_background_index
JiyiEnsure ==
    /\ jiyi.pc = "ensure"
    /\ LET state == get_initial_index_state(get_project_status(statusFile, jiyi.project)) IN
       IF NeedsIndex(state)
       THEN /\ HasFreeRun
            /\ SetRun(FreeRun, StartedRun(jiyi.project, jiyi.cfg))
            /\ jiyi' = [jiyi EXCEPT !.pc = "memory", !.index_hint = TRUE, !.spawned = FreeRun]
       ELSE /\ jiyi' = [jiyi EXCEPT !.pc = "memory", !.index_hint = TRUE]
            /\ UNCHANGED runs
    /\ UNCHANGED <<call, fs, statusFile, registryFile, memoryNotes, searches, calls>>

\* the memory operation: its text ends with the hint, or the call fails
JiyiMemory ==
    /\ jiyi.pc = "memory"
    /\ \E ok \in BOOLEAN :
          jiyi' = [jiyi EXCEPT !.pc = "done",
                      !.result = [is_error |-> ~ok, index_hint |-> ok /\ jiyi.index_hint]]
    /\ UNCHANGED <<call, fs, statusFile, registryFile, runs, memoryNotes, searches, calls>>

Next ==
    \/ \E p \in Projects, cfg \in ConfigsOne : Trigger(p, cfg)
    \/ \E s \in Searches, p \in Projects, cfg \in SearchConfigs : SearchBegin(s, p, cfg)
    \/ \E s \in Searches : SearchEnsure(s)
    \/ \E s \in Searches : SearchWait(s)
    \/ \E s \in Searches : SearchOnly(s)
    \/ \E s \in Searches : SearchRetrieve(s)
    \/ \E r \in Runs : IndexingLoad(r)
    \/ \E r \in Runs : IndexingSave(r)
    \/ \E r \in Runs : Collect(r)
    \/ \E r \in Runs : NoFilesLoad(r)
    \/ \E r \in Runs : NoFilesSave(r)
    \/ \E r \in Runs : CollectedLoad(r)
    \/ \E r \in Runs : CollectedSave(r)
    \/ \E r \in Runs : RegistryLoad(r)
    \/ \E r \in Runs : UploadBatch(r)
    \/ \E r \in Runs : Merge(r)
    \/ \E r \in Runs : NoBlobsLoad(r)
    \/ \E r \in Runs : NoBlobsSave(r)
    \/ \E r \in Runs : FirstCheck(r)
    \/ \E r \in Runs : SyncedLoad(r)
    \/ \E r \in Runs : SyncedSave(r)
    \/ \E r \in Runs : WriteMemory(r)

Spec == Init /\ [][Next]_vars

\* the search tool and the memory tool side by side
NextJiyi ==
    \/ Next
    \/ \E p \in Projects, sou_enabled \in BOOLEAN, cfg \in SearchConfigs :
          JiyiBegin(p, sou_enabled, cfg)
    \/ JiyiEnsure
    \/ JiyiMemory

SpecJiyi == Init /\ [][NextJiyi]_vars

\* Runs one after the other: a run starts when none is in flight.
TriggerSeq(p, cfg) ==
    /\ \A r \in Runs : ~InFlight(r)
    /\ Trigger(p, cfg)

NextSeq ==
    \/ \E p \in Projects, cfg \in Configs : TriggerSeq(p, cfg)
    \/ \E r \in Runs : IndexingLoad(r)
    \/ \E r \in Runs : IndexingSave(r)
    \/ \E r \in Runs : Collect(r)
    \/ \E r \in Runs : NoFilesLoad(r)
    \/ \E r \in Runs : NoFilesSave(r)
    \/ \E r \in Runs : CollectedLoad(r)
    \/ \E r \in Runs : CollectedSave(r)
    \/ \E r \in Runs : RegistryLoad(r)
    \/ \E r \in Runs : UploadAttempt(r)
    \/ \E r \in Runs : Merge(r)
    \/ \E r \in Runs : NoBlobsLoad(r)
    \/ \E r \in Runs : NoBlobsSave(r)
    \/ \E r \in Runs : FirstCheck(r)
    \/ \E r \in Runs : SyncedLoad(r)
    \/ \E r \in Runs : SyncedSave(r)
    \/ \E r \in Runs : WriteMemory(r)

SpecSeq == InitSeq /\ [][NextSeq]_vars

\* Runs one after the other over a backend that names each blob it stores
\* by the identifier it was sent.
NextIncr ==
    \/ \E p \in Projects, cfg \in Configs : TriggerSeq(p, cfg)
    \/ \E r \in Runs : IndexingLoad(r)
    \/ \E r \in Runs : IndexingSave(r)
    \/ \E r \in Runs : Collect(r)
    \/ \E r \in Runs : NoFilesLoad(r)
    \/ \E r \in Runs : NoFilesSave(r)
    \/ \E r \in Runs : CollectedLoad(r)
    \/ \E r \in Runs : CollectedSave(r)
    \/ \E r \in Runs : RegistryLoad(r)
    \/ \E r \in Runs : UploadBatch(r)
    \/ \E r \in Runs : Merge(r)
    \/ \E r \in Runs : NoBlobsLoad(r)
    \/ \E r \in Runs : NoBlobsSave(r)
    \/ \E r \in Runs : FirstCheck(r)
    \/ \E r \in Runs : SyncedLoad(r)
    \/ \E r \in Runs : SyncedSave(r)
    \/ \E r \in Runs : WriteMemory(r)

SpecIncr == InitSeq /\ [][NextIncr]_vars

\* ------------------------------------------------- the pure functions
\* The program is at rest while a pure function is studied.
ProgramVars == <<fs, statusFile, registryFile, runs, memoryNotes, searches, calls, jiyi>>

AtRest ==
    /\ fs = [p \in Projects |-> NoRoot]
    /\ statusFile = <<>>
    /\ registryFile = <<>>
    /\ runs = [r \in Runs |-> IdleRun]
    /\ memoryNotes = [p \in Projects |-> 0]
    /\ searches = [s \in Searches |-> IdleSearch]
    /\ calls = 0
    /\ jiyi = IdleJiyi

\* strings are sequences of bytes
Bytes == {"a", "b"}

Strings(max_len) == UNION {[1..k -> Bytes] : k \in 0..max_len}

\* SHA-256 is taken to be injective on the byte sequence it is fed: the
\* digest of a byte sequence is represented by that sequence
Digest(bytes) == bytes

\* ctx.update(path); ctx.update(content); hex of the digest
sha256_hex(path, content) == Digest(path \o content)

BlobItems == [path : Strings(MaxStrLen) \ {<<>>}, content : Strings(MaxStrLen)]

InitHash ==
    /\ AtRest
    /\ call \in [fn : {"sha256_hex"}, blobs : BlobItems \X BlobItems, hashes : {<<>>}]

\* update_index, lines 698-703: the hash of every collected blob
HashBlobs ==
    /\ call.fn = "sha256_hex"
    /\ call.hashes = <<>>
    /\ call' = [call EXCEPT !.hashes =
                    [k \in 1..2 |-> sha256_hex(call.blobs[k].path, call.blobs[k].content)]]
    /\ UNCHANGED ProgramVars

NextHash == HashBlobs

SpecHash == InitHash /\ [][NextHash]_vars

\* the bytes of a file's content
Newline == "\n"

ContentBytes == {"x", Newline}

Contents(max_len) == UNION {[1..k -> ContentBytes] : k \in 0..max_len}

\* the index of the first newline of a non-empty content, or its length
FirstLineEnd(content) ==
    IF \E k \in 1..Len(content) : content[k] = Newline
    THEN CHOOSE k \in 1..Len(content) :
            content[k] = Newline /\ \A j \in 1..(k - 1) : content[j] # Newline
    ELSE Len(content)

\* a split that drops the line terminators, as str::lines does
RECURSIVE SplitInclusive_Lines(_)
SplitInclusive_Lines(content) ==
    IF content = <<>> THEN <<>>
    ELSE LET k == FirstLineEnd(content)
             line == IF content[k] = Newline THEN SubSeq(content, 1, k - 1)
                     ELSE SubSeq(content, 1, k)
         IN <<line>> \o SplitInclusive_Lines(SubSeq(content, k + 1, Len(content)))

\* content.split_inclusive('\n'): every line keeps its terminator
RECURSIVE SplitInclusive(_)
SplitInclusive(content) ==
    IF content = <<>> THEN <<>>
    ELSE LET k == FirstLineEnd(content)
         IN <<SubSeq(content, 1, k)>> \o SplitInclusive(SubSeq(content, k + 1, Len(content)))

\* chunk_lines.join("")
RECURSIVE Join(_)
Join(lines) == IF lines = <<>> THEN <<>> ELSE Head(lines) \o Join(Tail(lines))

\* a chunk count that is one more than the quotient
NumChunks_Quotient(total_lines, max_lines) == total_lines \div max_lines + 1

\* num_chunks = (total_lines + max_lines - 1) / max_lines
NumChunks(total_lines, max_lines) == (total_lines + max_lines - 1) \div max_lines

\* format!("{}#chunk{}of{}", path, chunk_idx + 1, num_chunks)
ChunkPath(path, chunk_number, num_chunks) ==
    path \o "#chunk" \o ToString(chunk_number) \o "of" \o ToString(num_chunks)

split_content(path, content, max_lines) ==
    LET lines == SplitInclusive(content)
        total_lines == Len(lines)
        num_chunks == NumChunks(total_lines, max_lines)
    IN IF total_lines <= max_lines
       THEN <<[path |-> path, content |-> content]>>
       ELSE [n \in 1..num_chunks |->
               LET chunk_idx == n - 1
                   start_line == chunk_idx * max_lines
                   end_line == Min(start_line + max_lines, total_lines)
               IN [path |-> ChunkPath(path, chunk_idx + 1, num_chunks),
                   content |-> Join(SubSeq(lines, start_line + 1, end_line))]]

InitSplit ==
    /\ AtRest
    /\ call \in [fn : {"split_content"}, path : {"f"}, content : Contents(MaxContentLen),
                  max_lines : 1..MaxLinesPerBlob, done : {FALSE}, blobs : {<<>>}]

\* collect_blobs, line 618: the file is split
SplitContent ==
    /\ call.fn = "split_content"
    /\ ~call.done
    /\ call' = [call EXCEPT !.done = TRUE,
                            !.blobs = split_content(call.path, call.content, call.max_lines)]
    /\ UNCHANGED ProgramVars

NextSplit == SplitContent

SpecSplit == InitSplit /\ [][NextSplit]_vars

\* ------------------------------------------ should_exclude, collect_blobs
\* A root-relative path is the sequence of its segments.  The files of the
\* project directory are some of these; its directories are their ancestors.
FileUniverse ==
    {<<"x.js">>, <<"src", "x.js">>, <<"src", "a.rs">>,
     <<"node_modules", "a.rs">>, <<"src", "node_modules", "x.js">>}

\* the extension of a file name, with its dot, in lower case
Extension(name) ==
    IF name = "x.js" THEN ".js" ELSE IF name = "a.rs" THEN ".rs" ELSE ""

TextExts == {".js", ".rs"}

\* the exclusion patterns: node_modules, *.js, src/node_modules, src/a.rs
PatternUniverse ==
    {[kind |-> "literal", segs |-> <<"node_modules">>, ext |-> ""],
     [kind |-> "suffix", segs |-> <<>>, ext |-> ".js"],
     [kind |-> "literal", segs |-> <<"src", "node_modules">>, ext |-> ""],
     [kind |-> "literal", segs |-> <<"src", "a.rs">>, ext |-> ""]}

\* Glob::is_match on a text given by its segments: a pattern without
\* wildcard matches the whole text only; the * of *.ext matches separators too
GlobMatch(pattern, text) ==
    IF pattern.kind = "literal" THEN text = pattern.segs
    ELSE text # <<>> /\ Extension(text[Len(text)]) = pattern.ext

\* globset.is_match: some pattern of the set matches
IsMatch(patterns, text) == \E pattern \in patterns : GlobMatch(pattern, text)

\* an exclusion test on the full relative path only
should_exclude_FullPath(path, patterns) ==
    IF patterns = {} THEN FALSE ELSE IsMatch(patterns, path)

\* should_exclude: no globset, the full relative path, then every segment
should_exclude(path, patterns) ==
    IF patterns = {} THEN FALSE
    ELSE IF IsMatch(patterns, path) THEN TRUE
    ELSE \E k \in 1..Len(path) : IsMatch(patterns, <<path[k]>>)

IsUnder(path, dir) == Len(path) > Len(dir) /\ SubSeq(path, 1, Len(dir)) = dir

\* the entries of dir that read_dir yields: its directories and its files
SubDirs(files, dir) ==
    {SubSeq(f, 1, Len(dir) + 1) : f \in {g \in files : IsUnder(g, dir) /\ Len(g) > Len(dir) + 1}}

FilesIn(files, dir) == {f \in files : IsUnder(f, dir) /\ Len(f) = Len(dir) + 1}

ExtOk(file) == Extension(file[Len(file)]) \in TextExts

InitCollect ==
    /\ AtRest
    /\ call \in [fn : {"collect_blobs"}, files : SUBSET FileUniverse,
                  patterns : SUBSET PatternUniverse, dirs_stack : {<< <<>> >>},
                  out : {{}}, done : {FALSE}]

\* collect_blobs, one iteration of while let Some(dir) = dirs_stack.pop():
\* the directories that are not excluded are pushed in the order read_dir
\* yields them, the files that are not excluded and have a text extension
\* are collected
CollectDir ==
    /\ call.fn = "collect_blobs"
    /\ ~call.done
    /\ LET n == Len(call.dirs_stack)
           dir == call.dirs_stack[n]
           pushed == {d \in SubDirs(call.files, dir) : ~should_exclude(d, call.patterns)}
           kept == {f \in FilesIn(call.files, dir) :
                       ~should_exclude(f, call.patterns) /\ ExtOk(f)}
       IN \E order \in Perms(pushed) :
            call' = [call EXCEPT
                !.dirs_stack = SubSeq(call.dirs_stack, 1, n - 1) \o order,
                !.out = call.out \cup kept,
                !.done = (SubSeq(call.dirs_stack, 1, n - 1) \o order = <<>>)]
    /\ UNCHANGED ProgramVars

NextCollect == CollectDir

SpecCollect == InitCollect /\ [][NextCollect]_vars

\* ------------------------------------------------------ retry_request
\* The two call sites of retry_request and their arguments.
RetryCallers == {"upload", "search"}

MaxRetriesOf(caller) == IF caller = "upload" THEN UploadMaxRetries ELSE SearchMaxRetries

BaseDelayOf(caller) == IF caller = "upload" THEN UploadBaseDelay ELSE SearchBaseDelay

\* what f().await gives: a value, or an error with its rendered message
AttemptOutcomes ==
    {[ok |-> TRUE, msg |-> {}]} \cup {[ok |-> FALSE, msg |-> m] : m \in ErrorMessages}

InitRetry ==
    /\ AtRest
    /\ call \in [fn : {"retry_request"}, caller : RetryCallers, attempt : {0},
                  outcomes : {<<>>}, sleeps : {<<>>}, result : {"none"}, error : {{}}]

\* one iteration of while attempt < max_retries: the request, then return
\* the value, return the error, or sleep the delay and go round
RetryAttempt ==
    /\ call.fn = "retry_request"
    /\ call.result = "none"
    /\ call.attempt < MaxRetriesOf(call.caller)
    /\ \E outcome \in AttemptOutcomes :
         LET tried == [call EXCEPT !.outcomes = Append(call.outcomes, outcome)]
             attempt == call.attempt + 1
         IN call' =
              IF outcome.ok THEN [tried EXCEPT !.result = "ok"]
              ELSE IF GivesUp(attempt, MaxRetriesOf(call.caller), outcome.msg)
              THEN [tried EXCEPT !.attempt = attempt, !.result = "err",
                                 !.error = outcome.msg]
              ELSE [tried EXCEPT !.attempt = attempt,
                                 !.sleeps = Append(call.sleeps,
                                               BackoffDelay(BaseDelayOf(call.caller), attempt))]
    /\ UNCHANGED ProgramVars

NextRetry == RetryAttempt

\* the future of retry_request is polled to completion and every request returns
SpecRetry == InitRetry /\ [][NextRetry]_vars /\ WF_vars(NextRetry)

\* ------------------------------------------- get_initial_index_state
\* the records projects_status.json can hold for a project
StatusRecords ==
    [status : {"Idle", "Indexing", "Synced", "Failed"}, progress : {0, 100},
     total_files : 0..MaxTotalFiles, indexed_files : {0}, pending_files : {0},
     last_error : {"None", "no_indexable_files"}, last_success_time : {"None", "Some"},
     last_failure_time : {"None"}]

InitState ==
    /\ AtRest
    /\ call \in [fn : {"get_initial_index_state"},
                  doc : {<<>>} \cup {PutEntry(<<>>, "p", rec) : rec \in StatusRecords},
                  state : {"none"}]

\* search_context, line 58: the state of the project is derived
DeriveState ==
    /\ call.fn = "get_initial_index_state"
    /\ call.state = "none"
    /\ call' = [call EXCEPT !.state =
                    get_initial_index_state(get_project_status(call.doc, "p"))]
    /\ UNCHANGED ProgramVars

NextState == DeriveState

SpecState == InitState /\ [][NextState]_vars

\* ------------------------------------------ update_index, two projects
\* Two project roots share projects.json and projects_status.json.
ProjectsTwo == {"p", "q"}

\* a complete configuration
GoodConfig ==
    [base_url |-> [present |-> TRUE, scheme |-> "https://", host |-> 2],
     token |-> TRUE, batch_size |-> 2]

\* both projects were indexed before, or neither
FilesTwo ==
    {NoFiles,
     [status |-> PutEntry(PutEntry(<<>>, "p", SyncedAB), "q", SyncedAB),
      registry |-> PutEntry(PutEntry(<<>>, "p", {"A", "B"}), "q", {"A", "B"})]}

InitTwo ==
    /\ \E dp \in {NoRoot, Dir({}), Dir({"A", "B"})}, dq \in {Dir({"A", "B"}), Dir({"B", "C"})},
          files \in FilesTwo :
          /\ fs = [x \in ProjectsTwo |-> IF x = "p" THEN dp ELSE dq]
          /\ statusFile = files.status
          /\ registryFile = files.registry
    /\ runs = [r \in Runs |-> IdleRun]
    /\ memoryNotes = [x \in ProjectsTwo |-> 0]
    /\ searches = [s \in Searches |-> IdleSearch]
    /\ calls = 0
    /\ jiyi = IdleJiyi
    /\ call = NoCall

NextTwo ==
    \/ \E x \in ProjectsTwo : Trigger(x, GoodConfig)
    \/ \E r \in Runs : IndexingLoad(r)
    \/ \E r \in Runs : IndexingSave(r)
    \/ \E r \in Runs : Collect(r)
    \/ \E r \in Runs : NoFilesLoad(r)
    \/ \E r \in Runs : NoFilesSave(r)
    \/ \E r \in Runs : CollectedLoad(r)
    \/ \E r \in Runs : CollectedSave(r)
    \/ \E r \in Runs : RegistryLoad(r)
    \/ \E r \in Runs : UploadBatch(r)
    \/ \E r \in Runs : Merge(r)
    \/ \E r \in Runs : NoBlobsLoad(r)
    \/ \E r \in Runs : NoBlobsSave(r)
    \/ \E r \in Runs : FirstCheck(r)
    \/ \E r \in Runs : SyncedLoad(r)
    \/ \E r \in Runs : SyncedSave(r)
    \/ \E r \in Runs : WriteMemory(r)

SpecTwo == InitTwo /\ [][NextTwo]_vars

\* --------------------------------------- update_index: the validation
\* the base URLs up to one character more than the runs are given
ValidatedUrls ==
    {NoUrl} \cup [present : {TRUE}, scheme : {"", "http://", "https://"},
                  host : 0..(MaxHostLen + 1)]

InitValidate ==
    /\ AtRest
    /\ call \in [fn : {"validate"},
                  config : [base_url : ValidatedUrls, token : BOOLEAN, batch_size : BatchSizes],
                  result : {"none"}]

\* update_index, lines 636-641, on the configuration it is given
Validate ==
    /\ call.fn = "validate"
    /\ call.result = "none"
    /\ call' = [call EXCEPT !.result = ConfigError(call.config)]
    /\ UNCHANGED ProgramVars

NextValidate == Validate

SpecValidate == InitValidate /\ [][NextValidate]_vars

\* ================================================================ claims
StoredStatus(doc, p) == get_project_status(doc, p).status

AllowedTransitions ==
    {<<"Idle", "Indexing">>, <<"Indexing", "Synced">>, <<"Indexing", "Failed">>,
     <<"Synced", "Indexing">>, <<"Failed", "Indexing">>}

\* C1: every change of the stored status of a project is one of Idle->Indexing,
\* Indexing->Synced, Indexing->Failed, Synced->Indexing, Failed->Indexing, and a
\* stored record is never removed.  Overlapping runs break it: one run writes
\* Failed and the other then writes Synced over it.
C1_StatusTransitions ==
    [][\A p \in Projects :
          /\ StoredStatus(statusFile, p) # StoredStatus(statusFile', p)
                => <<StoredStatus(statusFile, p), StoredStatus(statusFile', p)>>
                      \in AllowedTransitions
          /\ p \in DOMAIN statusFile => p \in DOMAIN statusFile']_vars

\* the step in which run r leaves the position pc
Leaves(r, pc) == runs[r].pc = pc /\ runs'[r].pc # pc

PriorEntry(r) == RegistryEntry(runs[r].projects, runs[r].project)

FailsBatch(resp, attempt) ==
    \/ resp.kind \in {"empty", "missing"}
    \/ /\ resp.kind = "error"
       /\ \/ attempt = 2
          \/ resp.msg \cap {"timeout", "connection", "network", "temporary"} = {}

StoredRecord(r) == get_project_status(statusFile', runs[r].project)

\* C4: a run that passed collection concludes Failed if and only if the
\* merged list (existing identifiers plus the names of the successful
\* batches) is empty; then the record gets a last_error and a
\* last_failure_time and the run returns an error; in every other case, failed
\* batches included, it concludes Synced and returns the merged list.
C4_FailedIffEmptyMerge ==
    [][\A r \in Runs :
          LET merged == runs[r].existing_hashes \cup runs[r].uploaded_names IN
          /\ Leaves(r, "merge") =>
                /\ runs'[r].pc = IF merged = {} THEN "noblobs_load" ELSE "first_check"
                /\ runs'[r].blob_names = merged
          /\ Leaves(r, "noblobs_load") => runs'[r].pc = "noblobs_save"
          /\ Leaves(r, "noblobs_save") =>
                /\ StoredRecord(r).status = "Failed"
                /\ StoredRecord(r).last_error # "None"
                /\ StoredRecord(r).last_failure_time = "Some"
                /\ runs'[r].pc = "done"
                /\ runs'[r].result = [kind |-> "no_blobs_after_index", names |-> {}]
          /\ Leaves(r, "first_check") => runs'[r].pc = "synced_load"
          /\ Leaves(r, "synced_load") => runs'[r].pc = "synced_save"
          /\ Leaves(r, "synced_save") =>
                /\ StoredRecord(r).status = "Synced"
                /\ runs'[r].pc \in {"memory", "done"}
                /\ runs'[r].pc = "memory" => runs'[r].blob_names = merged
                /\ runs'[r].pc = "done" =>
                      runs'[r].result = [kind |-> "ok", names |-> merged]
          /\ Leaves(r, "memory") =>
                /\ runs'[r].pc = "done"
                /\ runs'[r].result = [kind |-> "ok", names |-> merged]
                /\ merged # {}]_vars

\* a run with a failed batch has concluded Synced
C4_Witness ==
    \E r \in Runs :
        /\ runs[r].pc = "memory"
        /\ runs[r].failed_batches # <<>>
        /\ runs[r].blob_names # {}
        /\ StoredStatus(statusFile, runs[r].project) = "Synced"

\* C5: the record a run writes when it concludes successfully has status
\* Synced, progress 100, indexed_files equal to the number of blobs collected
\* in that run, pending_files 0, last_success_time set and last_error cleared.
C5_SyncedRecord ==
    [][\A r \in Runs : Leaves(r, "synced_save") =>
          /\ StoredRecord(r).status = "Synced"
          /\ StoredRecord(r).progress = 100
          /\ StoredRecord(r).indexed_files = Cardinality(runs[r].blobs)
          /\ StoredRecord(r).pending_files = 0
          /\ StoredRecord(r).last_success_time = "Some"
          /\ StoredRecord(r).last_error = "None"]_vars

\* a run has concluded successfully after an earlier run had failed
C5_Witness ==
    \E r \in Runs :
        /\ runs[r].pc = "memory"
        /\ LET rec == get_project_status(statusFile, runs[r].project) IN
            /\ rec.status = "Synced"
            /\ rec.progress = 100
            /\ rec.indexed_files = Cardinality(runs[r].blobs)
            /\ rec.indexed_files > 0
            /\ rec.last_failure_time = "Some"
            /\ rec.last_error = "None"

ConfigErrors == {"no_base_url", "invalid_base_url", "no_token"}

\* C6: when the validation of the configuration fails (base_url absent, not
\* scheme-prefixed or without host, or token absent) the run that starts returns a
\* configuration error, and neither the status file nor the registry file is
\* changed: the status is not set to Indexing.
C6_ConfigErrorNoWrite ==
    /\ []((calls < MaxCalls /\ HasFreeRun) =>
            \A p \in Projects, cfg \in Configs :
               (\/ ~cfg.base_url.present
                \/ cfg.base_url.scheme = ""
                \/ cfg.base_url.host = 0
                \/ ~cfg.token)
               => LET run == StartedRun(p, cfg) IN
                  /\ run.pc = "done"
                  /\ run.result.kind \in ConfigErrors)
    /\ [][\A r \in Runs :
            (runs'[r] # runs[r] /\ runs'[r].result.kind \in ConfigErrors)
            => /\ ~InFlight(r)
               /\ runs'[r].pc = "done"
               /\ statusFile' = statusFile
               /\ registryFile' = registryFile]_vars

\* a run has returned a configuration error and the project has no record
C6_Witness ==
    \E r \in Runs :
        /\ runs[r].pc = "done"
        /\ runs[r].result.kind = "no_token"
        /\ runs[r].project \notin DOMAIN statusFile
        /\ runs[r].project \notin DOMAIN registryFile

\* C7: when the collection yields no blob the run fails with the
\* no-indexable-files error, the stored status becomes Failed with last_error
\* and last_failure_time set, and the run leaves the registry file unchanged.
C7_NoIndexableFiles ==
    [][\A r \in Runs :
          /\ (Leaves(r, "collect") /\ fs[runs[r].project] = Dir({}))
                => runs'[r].pc = "nofiles_load"
          /\ Leaves(r, "nofiles_load") => runs'[r].pc = "nofiles_save"
          /\ Leaves(r, "nofiles_save") =>
                /\ StoredRecord(r).status = "Failed"
                /\ StoredRecord(r).last_error = "no_indexable_files"
                /\ StoredRecord(r).last_failure_time = "Some"
                /\ runs'[r].pc = "done"
                /\ runs'[r].result = [kind |-> "no_indexable_files", names |-> {}]
          /\ (runs'[r] # runs[r]
                /\ runs[r].pc \in {"indexing_load", "indexing_save", "collect",
                                   "nofiles_load", "nofiles_save"})
                => registryFile' = registryFile]_vars

\* a run over a directory without blobs has failed; the prior entry is intact
C7_Witness ==
    \E r \in Runs :
        /\ runs[r].pc = "done"
        /\ runs[r].result.kind = "no_indexable_files"
        /\ fs[runs[r].project] = Dir({})
        /\ get_project_status(statusFile, runs[r].project).status = "Failed"
        /\ get_project_status(statusFile, runs[r].project).last_failure_time = "Some"
        /\ RegistryEntry(registryFile, runs[r].project) = {"A", "B"}

\* C8 as stated: after a run over a project root that does not exist, the
\* stored status is Failed with an error message.
C8_RootMissingFailed ==
    \A r \in Runs :
        (runs[r].pc = "done" /\ runs[r].result.kind = "root_missing")
        => /\ StoredStatus(statusFile, runs[r].project) = "Failed"
           /\ get_project_status(statusFile, runs[r].project).last_error # "None"

\* C9 as stated: over all runs for one project the memory note is attempted
\* at most once.
C9_MemoryNoteOnce == \A p \in Projects : memoryNotes[p] <= 1

NeedingStates == {"Missing", "Idle", "Failed"}

Returns(s) == searches[s].pc \in {"search", "retrieve"} /\ searches'[s].pc = "done"

\* the step in which search s begins
Begins(s) == searches[s].pc \in {"unused", "done"} /\ searches'[s].pc \notin {"unused", "done"}

\* C11 as stated: every search whose derived state is Missing, Idle or Failed
\* returns with the background-indexing hint appended, the first search of a
\* never-indexed project included (base_url and token configured).
C11_HintAppended ==
    [][\A s \in Searches :
          (Returns(s) /\ searches[s].initial_state \in NeedingStates
             /\ searches[s].cfg.base_url.present /\ searches[s].cfg.token)
          => searches'[s].result.hint = BackgroundHint]_vars

\* C12: a search whose derived state is Indexing sleeps once for w seconds,
\* SmartWaitMin <= w <= SmartWaitMax, then goes to the search call without
\* spawning a run, and a successful result carries the hint with that w;
\* with the range (1,1) the wait is 1 second.
C12_SmartWait ==
    /\ [](/\ SmartWaitSecs(1, 1) = {1}
          /\ \A s \in Searches :
               /\ searches[s].pc = "wait" =>
                     /\ searches[s].initial_state = "Indexing"
                     /\ searches[s].hint = NoHint
               /\ (searches[s].pc \in {"search", "retrieve"}
                     /\ searches[s].initial_state = "Indexing") =>
                     /\ searches[s].hint.kind = "waited"
                     /\ searches[s].spawned = 0)
    /\ [][\A s \in Searches :
            /\ (Begins(s) /\ StoredStatus(statusFile, searches'[s].project) = "Indexing")
                  => searches'[s].pc = "wait"
            /\ (searches[s].pc = "wait" /\ searches'[s].pc # "wait") =>
                  /\ searches'[s].pc = "search"
                  /\ searches'[s].hint.kind = "waited"
                  /\ searches'[s].hint.secs >= SmartWaitMin
                  /\ searches'[s].hint.secs <= SmartWaitMax
                  /\ runs' = runs
            /\ (searches[s].initial_state = "Indexing"
                  /\ searches[s].pc = "search" /\ searches'[s].pc # "search") =>
                  /\ searches'[s].pc \in {"retrieve", "done"}
                  /\ searches'[s].pc = "retrieve" => searches'[s].hint = searches[s].hint
                  /\ runs' = runs
            /\ (searches[s].initial_state = "Indexing"
                  /\ searches[s].pc = "retrieve" /\ searches'[s].pc # "retrieve") =>
                  /\ searches'[s].pc = "done"
                  /\ runs' = runs
                  /\ ~searches'[s].result.is_error
                        => searches'[s].result.hint = searches[s].hint]_vars

\* a search has waited and has sent its request with the hint of the wait
C12_Witness ==
    \E s \in Searches :
        /\ searches[s].pc = "retrieve"
        /\ searches[s].initial_state = "Indexing"
        /\ searches[s].hint = [kind |-> "waited", secs |-> SmartWaitMax]

\* C13: a search whose derived state is Synced goes to the search call at
\* once: it neither sleeps nor spawns a run, and its result has no hint.
C13_SyncedSearch ==
    /\ [](\A s \in Searches :
            (searches[s].pc \notin {"unused", "done"}
               /\ searches[s].initial_state = "Synced") =>
                 /\ searches[s].pc \in {"search", "retrieve"}
                 /\ searches[s].hint = NoHint
                 /\ searches[s].spawned = 0)
    /\ [][\A s \in Searches :
            /\ (Begins(s) /\ StoredStatus(statusFile, searches'[s].project) = "Synced") =>
                  /\ searches'[s].pc = "search"
                  /\ searches'[s].initial_state = "Synced"
                  /\ runs' = runs
            /\ (searches[s].initial_state = "Synced" /\ searches'[s] # searches[s]
                  /\ searches[s].pc \in {"search", "retrieve"}) =>
                  /\ runs' = runs
                  /\ searches'[s].pc \in {"retrieve", "done"}
                  /\ searches'[s].pc = "done" => searches'[s].result.hint = NoHint]_vars

\* a search of a synced project has sent its request: no hint, no run
C13_Witness ==
    \E s \in Searches :
        /\ searches[s].pc = "retrieve"
        /\ searches[s].initial_state = "Synced"
        /\ searches[s].hint = NoHint
        /\ searches[s].spawned = 0
        /\ \A r \in Runs : ~InFlight(r)

\* C14: search_only returns an error without sending a request when base_url
\* or token is missing or the registry entry of the project is absent or
\* empty (the not-indexed error); otherwise it sends the request with the
\* whole entry the registry holds at that moment.
C14_FailFast ==
    [][\A s \in Searches :
          (searches[s].pc = "search" /\ searches'[s].pc # "search") =>
            LET cfg == searches[s].cfg
                entry == IF searches[s].project \in DOMAIN registryFile
                         THEN registryFile[searches[s].project] ELSE {}
            IN
            IF ~cfg.base_url.present \/ ~cfg.token \/ entry = {}
            THEN /\ searches'[s].pc = "done"
                 /\ searches'[s].result.is_error
                 /\ (cfg.base_url.present /\ cfg.token)
                       => searches'[s].result.text = "not_indexed"
            ELSE /\ searches'[s].pc = "retrieve"
                 /\ searches'[s].blob_names = entry]_vars

\* a search has sent its request with the two names of the registry entry
C14_Witness ==
    \E s \in Searches :
        /\ searches[s].pc = "retrieve"
        /\ searches[s].blob_names = {"A", "B"}
        /\ searches[s].blob_names = registryFile[searches[s].project]

\* C15: no step of a search writes the registry file or the status file, and
\* the registry file is changed only by the merge step of a run.
C15_SearchReadOnly ==
    [][/\ searches' # searches =>
             /\ registryFile' = registryFile
             /\ statusFile' = statusFile
       /\ registryFile' # registryFile =>
             \E r \in Runs : Leaves(r, "merge")]_vars

\* a search has returned a retrieval; both files are as they were before it
C15_Witness ==
    /\ \E s \in Searches : searches[s].pc = "done" /\ searches[s].result.text = "retrieved"
    /\ calls = 1
    /\ statusFile = PriorFiles("p").status
    /\ registryFile = PriorFiles("p").registry

Merged == {"first_check", "synced_load", "synced_save", "memory"}

\* C16: runs are not serialised.  Every write of the registry entry is the
\* writer's own merged list, whatever the file held, and every write of the
\* status record is made from the writer's own snapshot: the last writer wins.
C16_LastWriterWins ==
    [][\A r \in Runs :
          /\ Leaves(r, "merge") =>
                RegistryEntry(registryFile', runs[r].project)
                   = runs[r].existing_hashes \cup runs[r].uploaded_names
          /\ (runs'[r] # runs[r] /\ statusFile' # statusFile) =>
                \E rec \in {UpdaterIndexing(SnapStatus(r)),
                             UpdaterNoFiles(SnapStatus(r)),
                             UpdaterCollected(SnapStatus(r), Cardinality(runs[r].blobs)),
                             UpdaterNoBlobs(SnapStatus(r)),
                             UpdaterSynced(SnapStatus(r), Cardinality(runs[r].blobs))} :
                   statusFile' = PutEntry(runs[r].snap, runs[r].project, rec)]_vars

\* two runs of one project, both having read the registry before either
\* wrote it, have merged different lists; the file holds the list of one
C16_Witness ==
    \E r1, r2 \in Runs :
        /\ r1 # r2
        /\ runs[r1].project = runs[r2].project
        /\ runs[r1].pc \in Merged
        /\ runs[r2].pc \in Merged
        /\ runs[r1].projects = runs[r2].projects
        /\ runs[r1].blob_names # runs[r2].blob_names
        /\ registryFile[runs[r1].project] = runs[r1].blob_names

\* C17 as stated: equal (path, content) pairs give equal identifiers and
\* distinct pairs give different identifiers, the hash being injective on the
\* bytes it is fed.
C17_CollisionFree ==
    (call.fn = "sha256_hex" /\ call.hashes # <<>>) =>
        (call.hashes[1] = call.hashes[2] <=> call.blobs[1] = call.blobs[2])

Done(fn) == call.fn = fn /\ call.done

\* C18: the contents of the blobs of split_content, concatenated in chunk
\* order, are the original content, every line with its terminator.
C18_RoundTrip ==
    Done("split_content") =>
        Join([n \in 1..Len(call.blobs) |-> call.blobs[n].content]) = call.content

\* a content of three lines, the last without terminator, is split in two
C18_Witness ==
    /\ Done("split_content")
    /\ call.content = <<"x", Newline, Newline, "x">>
    /\ call.max_lines = 2
    /\ call.blobs = <<[path |-> "f#chunk1of2", content |-> <<"x", Newline, Newline>>],
                      [path |-> "f#chunk2of2", content |-> <<"x">>]>>

\* the number of lines of a content: its newlines, and one more when it
\* does not end with one
LineCount(content) ==
    Cardinality({k \in 1..Len(content) : content[k] = Newline})
      + (IF content # <<>> /\ content[Len(content)] # Newline THEN 1 ELSE 0)

\* C19: with L lines, split_content returns one blob with the original path
\* when L <= maxLines, and otherwise n = ceil(L / maxLines) blobs named
\* <path>#chunk<i>of<n>, i = 1..n in order, each but the last of maxLines
\* lines and the last of the remaining 1..maxLines lines.
C19_ChunkBoundary ==
    Done("split_content") =>
        LET L == LineCount(call.content)
            m == call.max_lines
            n == CHOOSE k \in 0..L : k * m >= L /\ (k = 0 \/ (k - 1) * m < L)
        IN IF L <= m
           THEN call.blobs = <<[path |-> call.path, content |-> call.content]>>
           ELSE /\ Len(call.blobs) = n
                /\ \A i \in 1..n :
                     /\ call.blobs[i].path
                           = call.path \o "#chunk" \o ToString(i) \o "of" \o ToString(n)
                     /\ i < n => LineCount(call.blobs[i].content) = m
                /\ LineCount(call.blobs[n].content) = L - (n - 1) * m
                /\ LineCount(call.blobs[n].content) \in 1..m

\* maxLines + 1 lines give two chunks, the second of one line, and maxLines
\* lines give one blob
C19_Witness ==
    /\ Done("split_content")
    /\ call.max_lines = 2
    /\ LineCount(call.content) = 3
    /\ Len(call.blobs) = 2
    /\ call.blobs[2].path = "f#chunk2of2"
    /\ LineCount(call.blobs[2].content) = 1

\* the patterns match the text as a whole or one of its segments
DualMatch(patterns, path) ==
    \E pattern \in patterns :
        \/ GlobMatch(pattern, path)
        \/ \E k \in 1..Len(path) : GlobMatch(pattern, <<path[k]>>)

RetryWords == {"timeout", "connection", "network", "temporary"}

\* C21: retry_request with max 3 makes at most 3 attempts; a failed attempt
\* is followed by another only if its message contains one of the four words
\* and fewer than 3 attempts were made; an error that is not retryable ends
\* the call after that attempt with that error; a success ends the call with
\* no further attempt; the call always ends.
C21_RetryPolicy ==
    /\ [](call.fn = "retry_request" =>
            LET n == Len(call.outcomes) IN
            /\ n <= 3
            /\ \A k \in 1..(n - 1) :
                  /\ ~call.outcomes[k].ok
                  /\ call.outcomes[k].msg \cap RetryWords # {}
            /\ call.result = "none" =>
                  \A k \in 1..n :
                     ~call.outcomes[k].ok /\ call.outcomes[k].msg \cap RetryWords # {}
            /\ (n > 0 /\ call.outcomes[n].ok) => call.result = "ok"
            /\ (n > 0 /\ ~call.outcomes[n].ok
                     /\ (n = 3 \/ call.outcomes[n].msg \cap RetryWords = {})) =>
                  /\ call.result = "err"
                  /\ call.error = call.outcomes[n].msg
            /\ call.result = "ok" => (n > 0 /\ call.outcomes[n].ok)
            /\ call.result = "err" => (n > 0 /\ ~call.outcomes[n].ok))
    /\ [][call.result # "none" => call' = call]_vars
    /\ <>(call.fn = "retry_request" /\ call.result # "none")

\* two retryable failures, then a success at the third attempt
C21_Witness ==
    /\ call.fn = "retry_request"
    /\ Len(call.outcomes) = 3
    /\ call.outcomes[1].msg = {"timeout"}
    /\ call.outcomes[2].msg = {"HTTP 503", "temporary"}
    /\ call.result = "ok"

\* C22: the sleep before retry k is base * 2^(k-1) seconds, base 1 for the
\* upload (1, 2) and base 2 for the search (2, 4); there is no sleep before
\* the first attempt, after a success, after an error that is not retried or
\* after the third failed attempt.
C22_Backoff ==
    call.fn = "retry_request" =>
        LET n == Len(call.outcomes)
            failed == Cardinality({k \in 1..n : ~call.outcomes[k].ok})
            delays == IF call.caller = "upload" THEN <<1, 2>> ELSE <<2, 4>>
        IN /\ Len(call.sleeps) <= 2
           /\ \A k \in 1..Len(call.sleeps) : call.sleeps[k] = delays[k]
           /\ n = 0 => call.sleeps = <<>>
           /\ call.result = "none" => Len(call.sleeps) = failed
           /\ call.result = "err" => Len(call.sleeps) = failed - 1
           /\ call.result = "ok" => Len(call.sleeps) = failed

\* the search call has failed three times: it slept 2 and 4 seconds
C22_Witness ==
    /\ call.fn = "retry_request"
    /\ call.caller = "search"
    /\ call.result = "err"
    /\ Len(call.outcomes) = 3
    /\ call.sleeps = <<2, 4>>

CeilDiv(n, b) == CHOOSE k \in 0..n : k * b >= n /\ (k - 1) * b < n

\* C24: the new blobs of a run are the collected blobs that are not in the
\* registry entry, each in exactly one of ceil(n / b) batches of at most b
\* blobs, only the last of which may hold fewer; the batches are sent one
\* after the other in batch order, and the loop ends after the last one.
C24_Batching ==
    /\ [](\A r \in Runs : runs[r].pc = "upload" =>
            LET nb == runs[r].new_blobs
                n == Len(nb)
                b == runs[r].batch_size
                total == CeilDiv(n, b)
                B(k) == Batch(nb, k, b)
            IN /\ Cardinality(Range(nb)) = n
               /\ Range(nb) = runs[r].blobs \ PriorEntry(r)
               /\ runs[r].i \in 0..(total - 1)
               /\ UNION {B(k) : k \in 0..(total - 1)} = Range(nb)
               /\ \A k \in 0..(total - 1) :
                     /\ Cardinality(B(k)) \in 1..b
                     /\ k < total - 1 => Cardinality(B(k)) = b
                     /\ \A j \in 0..(total - 1) : j # k => B(j) \cap B(k) = {})
    /\ [][\A r \in Runs : runs[r].pc = "upload" =>
            /\ runs'[r].i \in {runs[r].i, runs[r].i + 1}
            /\ runs'[r].new_blobs = runs[r].new_blobs
            /\ runs'[r].i = runs[r].i => runs'[r].pc = "upload"
            /\ Leaves(r, "upload") =>
                  /\ runs'[r].pc = "merge"
                  /\ runs'[r].i = CeilDiv(Len(runs[r].new_blobs), runs[r].batch_size)]_vars

\* three new blobs in batches of two: the second, smaller batch is next
C24_Witness ==
    \E r \in Runs :
        /\ runs[r].pc = "upload"
        /\ runs[r].batch_size = 2
        /\ Len(runs[r].new_blobs) = 3
        /\ runs[r].i = 1

\* C25: the validation accepts a configuration exactly when base_url is
\* present, starts with http:// or https://, has a non-empty part after the
\* scheme, and the token is present.
C25_Validation ==
    (call.fn = "validate" /\ call.result # "none") =>
        LET u == call.config.base_url IN
        (call.result = "ok") <=>
            /\ u.present
            /\ u.scheme \in {"http://", "https://"}
            /\ u.host >= 1
            /\ call.config.token

\* C26: the step of a run that writes projects.json leaves the registry
\* entry of every other project as it was.
C26_RegistryIsolation ==
    [][\A r \in Runs : Leaves(r, "merge") =>
          \A x \in ProjectsTwo \ {runs[r].project} :
              RegistryEntry(registryFile', x) = RegistryEntry(registryFile, x)]_vars

\* C27: no stored status record is Idle with total_files > 0.
C27_MissingUnreachable ==
    \A x \in DOMAIN statusFile :
        ~(statusFile[x].status = "Idle" /\ statusFile[x].total_files > 0)

\* C28: a stored Synced record has progress 100, no pending file, no error
\* and as many indexed files as files; a stored Failed record has its error
\* and the time of the failure.
C28_RecordConsistency ==
    \A x \in DOMAIN statusFile :
        LET rec == statusFile[x] IN
        /\ rec.status = "Synced" =>
              /\ rec.progress = 100
              /\ rec.pending_files = 0
              /\ rec.last_error = "None"
              /\ rec.indexed_files = rec.total_files
        /\ rec.status = "Failed" =>
              /\ rec.last_error # "None"
              /\ rec.last_failure_time # "None"

\* C30: while the stored status of a project is Indexing, a run of that
\* project is in flight.
C30_IndexingNotResting ==
    \A x \in DOMAIN statusFile :
        statusFile[x].status = "Indexing" =>
            \E r \in Runs : InFlight(r) /\ runs[r].project = x

\* C29: a response of jiyi or of search_context carries the
\* background-indexing hint only if that call spawned a run.
C29_HintTruthful ==
    /\ []((jiyi.pc = "done" /\ jiyi.result.index_hint) => jiyi.spawned # 0)
    /\ [][\A s \in Searches :
            (Returns(s) /\ searches'[s].result.hint = BackgroundHint)
                => searches[s].spawned # 0]_vars

\* the blobs of the failed batches of a run
FailedBlobs(run) ==
    UNION {Batch(run.new_blobs, k - 1, run.batch_size) : k \in Range(run.failed_batches)}

\* the k-th call is a run that is about to write its merged entry
AtMerge(k, r) == calls = k /\ runs[r].pc = "merge"

\* C31: with a backend that names each blob by its identifier and unchanged
\* files, the run after a run whose failed batches held the blobs F uploads
\* exactly F; after a run without failed batch it uploads nothing and
\* persists the set S the first run persisted.
C31_IncrementalUpload ==
    \A k \in 1..MaxCalls, F \in SUBSET Ids :
        /\ []((\E r \in Runs : AtMerge(k, r) /\ FailedBlobs(runs[r]) = F)
              => [](\A r \in Runs :
                      (calls = k + 1 /\ runs[r].pc \in {"upload", "merge"})
                          => Range(runs[r].new_blobs) = F))
        /\ []((\E r \in Runs :
                  /\ AtMerge(k, r)
                  /\ runs[r].failed_batches = <<>>
                  /\ AllBlobNames(runs[r].existing_hashes, runs[r].uploaded_names) = F)
              => [](\A r \in Runs :
                      /\ (calls = k + 1 /\ runs[r].pc = "merge")
                            => AllBlobNames(runs[r].existing_hashes,
                                            runs[r].uploaded_names) = F
                      /\ (calls = k + 1 /\ runs[r].pc \in {"first_check", "synced_load"})
                            => RegistryEntry(registryFile, runs[r].project) = F))

\* the second run over A, B, C after a run that stored A and B and whose
\* batch with C failed: it is to upload C
C31_Witness ==
    \E r \in Runs :
        /\ calls = 2
        /\ runs[r].pc = "upload"
        /\ fs[runs[r].project].ids = {"A", "B", "C"}
        /\ runs[r].existing_hashes = {"A", "B"}
        /\ Range(runs[r].new_blobs) = {"C"}

====
